---- MODULE Spec2Model ----
(***************************************************************************)
(* Model of the YouTube summarizer service: the URL identifier extractor, *)
(* the subtitle normalizer, the two transcript retrievers (the captions   *)
(* API variant of app.py and the subtitle-download variant of             *)
(* "app (2).py") and the POST /summarize request handler.                 *)
(*                                                                         *)
(* Python strings are sequences of one-character strings.  None is the    *)
(* one-element sequence None below, which no character string equals.     *)
(* The grave accent, which a TLA+ string cannot hold, is written "GRAVE".  *)
(***************************************************************************)
EXTENDS Integers, Sequences, FiniteSets, TLC

VARIABLES
    ex,       \* the extractor under test: its input and result
    vt,       \* the normalizer under test: its input and results
    variant,  \* which app runs: "api" (app.py) or "ytdlp" (app (2).py)
    req,      \* the requests in flight: one record of locals per request
    platform, \* what the video platform holds for a video: its subtitle languages and text
    fs        \* the temp directory: the subtitle files yt_sub_<video_id>.<lang>.vtt

vars == <<ex, vt, variant, req, platform, fs>>

\* ------------------------------------------------------------ bounds
\* Largest number of whitespace characters put around an input.
MaxPad == 1

\* ------------------------------------------------------------ strings
None == <<"<None>">>

Lowercase == {"a","b","c","d","e","f","g","h","i","j","k","l","m","n","o","p","q","r","s","t","u","v","w","x","y","z"}
Uppercase == {"A","B","C","D","E","F","G","H","I","J","K","L","M","N","O","P","Q","R","S","T","U","V","W","X","Y","Z"}
Digits == {"0","1","2","3","4","5","6","7","8","9"}

\* What str.strip() removes and what \s matches.
Whitespace == {" ", "\t", "\n", "\r", "\f"}

\* The character class [a-zA-Z0-9_-].
IdChars == Lowercase \cup Uppercase \cup Digits \cup {"_", "-"}

\* The {11} of the identifier patterns.
IdLen == 11

Min(a, b) == IF a < b THEN a ELSE b

\* s[i:] and s[:n] of Python, 0-based i.
From(s, i) == SubSeq(s, i + 1, Len(s))
Take(s, n) == SubSeq(s, 1, Min(n, Len(s)))

\* s.startswith(p)
StartsWith(s, p) == Len(p) <= Len(s) /\ SubSeq(s, 1, Len(p)) = p

\* p occurs in s at 1-based position i
OccursAt(s, p, i) == i >= 1 /\ i + Len(p) - 1 <= Len(s) /\ SubSeq(s, i, i + Len(p) - 1) = p

\* p in s
Contains(s, p) == \E i \in 1..(Len(s) + 1) : OccursAt(s, p, i)

RECURSIVE LStrip(_)
LStrip(s) == IF s # << >> /\ Head(s) \in Whitespace THEN LStrip(Tail(s)) ELSE s

RECURSIVE RStrip(_)
RStrip(s) == IF s # << >> /\ s[Len(s)] \in Whitespace THEN RStrip(SubSeq(s, 1, Len(s) - 1)) ELSE s

\* str.strip()
Strip(s) == RStrip(LStrip(s))

\* A video the platform holds nothing for.
NoVideo == [info |-> [subtitles |-> << >>, automatic_captions |-> << >>], content |-> << >>]

\* ------------------------------------------------------------ extract_video_id
\* The list with its first two patterns in the other order.
patterns_Reordered == << <<"y","o","u","t","u",".","b","e","/">>, <<"v","=">>, <<"e","m","b","e","d","/">>, <<"s","h","o","r","t","s","/">> >>

\* The literal prefixes of the four patterns, in the order of the list.
patterns == << <<"v","=">>, <<"y","o","u","t","u",".","b","e","/">>, <<"e","m","b","e","d","/">>, <<"s","h","o","r","t","s","/">> >>

\* The literal lit at position i followed by IdLen characters of the class.
PatternAt(url, lit, i) ==
    /\ OccursAt(url, lit, i)
    /\ i + Len(lit) + IdLen - 1 <= Len(url)
    /\ \A j \in (i + Len(lit))..(i + Len(lit) + IdLen - 1) : url[j] \in IdChars

\* re.search(pattern, url): group(1) of the leftmost match, or None.
ReSearch(lit, url) ==
    LET hits == {i \in 1..Len(url) : PatternAt(url, lit, i)}
    IN  IF hits = {} THEN None
        ELSE LET i == CHOOSE h \in hits : \A g \in hits : h <= g
             IN  SubSeq(url, i + Len(lit), i + Len(lit) + IdLen - 1)

\* re.match(r"^[a-zA-Z0-9_-]{11}$", s): $ also matches before a final newline.
ReMatchBareId(s) ==
    /\ Len(s) = IdLen \/ (Len(s) = IdLen + 1 /\ s[Len(s)] = "\n")
    /\ \A j \in 1..IdLen : s[j] \in IdChars

RECURSIVE FirstPattern(_, _)
FirstPattern(url, k) ==
    IF k > Len(patterns) THEN None
    ELSE IF ReSearch(patterns[k], url) # None THEN ReSearch(patterns[k], url)
    ELSE FirstPattern(url, k + 1)

extract_video_id(url) ==
    IF FirstPattern(url, 1) # None THEN FirstPattern(url, 1)
    ELSE IF ReMatchBareId(Strip(url)) THEN Strip(url)
    ELSE None

\* ------------------------------------------------------------ parse_vtt
\* content.split(sep) for a one-character separator: always at least one piece.
RECURSIVE Split(_, _)
Split(s, sep) ==
    IF \A i \in 1..Len(s) : s[i] # sep THEN << s >>
    ELSE LET i == CHOOSE k \in 1..Len(s) : s[k] = sep /\ \A j \in 1..(k - 1) : s[j] # sep
         IN  << SubSeq(s, 1, i - 1) >> \o Split(SubSeq(s, i + 1, Len(s)), sep)

\* sep.join(parts)
RECURSIVE Join(_, _)
Join(parts, sep) ==
    IF parts = << >> THEN << >>
    ELSE IF Len(parts) = 1 THEN parts[1]
    ELSE parts[1] \o sep \o Join(Tail(parts), sep)

\* re.match(r'^\d+$', line) on a stripped line.
ReMatchDigits(line) == line # << >> /\ \A i \in 1..Len(line) : line[i] \in Digits

\* re.sub(r'<[^>]+>', '', line): a "<" starts a tag when the next ">" is at
\* least two characters further on; the tag ends at that ">".
RECURSIVE ReSubTags(_)
ReSubTags(s) ==
    IF s = << >> THEN << >>
    ELSE IF Head(s) = "<" /\ (\E j \in 3..Len(s) : s[j] = ">") /\ s[2] # ">"
         THEN LET j == CHOOSE k \in 3..Len(s) : s[k] = ">" /\ \A m \in 3..(k - 1) : s[m] # ">"
              IN  ReSubTags(SubSeq(s, j + 1, Len(s)))
         ELSE << Head(s) >> \o ReSubTags(Tail(s))

\* The body of the loop over lines: text_lines after one more line.
VttLine(text_lines, rawline) ==
    LET line == Strip(rawline)
        clean == Strip(ReSubTags(line))
    IN  IF line = << >> THEN text_lines
        ELSE IF StartsWith(line, <<"W","E","B","V","T","T">>) \/ StartsWith(line, <<"K","i","n","d",":">>) \/ StartsWith(line, <<"L","a","n","g","u","a","g","e",":">>) THEN text_lines
        ELSE IF Contains(line, <<"-","-",">">>) THEN text_lines
        ELSE IF ReMatchDigits(line) THEN text_lines
        ELSE IF clean = << >> THEN text_lines
        ELSE IF text_lines # << >> /\ text_lines[Len(text_lines)] = clean THEN text_lines
        ELSE Append(text_lines, clean)

RECURSIVE VttLines(_, _)
VttLines(text_lines, lines) ==
    IF lines = << >> THEN text_lines
    ELSE VttLines(VttLine(text_lines, Head(lines)), Tail(lines))

parse_vtt(content) == Join(VttLines(<< >>, Split(content, "\n")), <<" ">>)

\* ------------------------------------------------------------ extractor inputs
Ids == { <<"d","Q","w","4","w","9","W","g","X","c","Q">>, <<"a","-","b","_","c","-","d","_","e","-","f">>, <<"0","0","0","0","0","0","0","0","0","0","0">> }

\* The accepted forms: what precedes the identifier.
FormPrefix ==
    [ watch  |-> <<"h","t","t","p","s",":","/","/","w","w","w",".","y","o","u","t","u","b","e",".","c","o","m","/","w","a","t","c","h","?","v","=">>,
      short  |-> <<"h","t","t","p","s",":","/","/","y","o","u","t","u",".","b","e","/">>,
      embed  |-> <<"h","t","t","p","s",":","/","/","w","w","w",".","y","o","u","t","u","b","e",".","c","o","m","/","e","m","b","e","d","/">>,
      shorts |-> <<"h","t","t","p","s",":","/","/","w","w","w",".","y","o","u","t","u","b","e",".","c","o","m","/","s","h","o","r","t","s","/">>,
      bare   |-> << >> ]

Forms == DOMAIN FormPrefix

\* What may follow the identifier of a URL form without naming another one.
PlainSuffix == { << >>, <<"&","t","=","1","0","s">>, <<"?","s","i","=","a","b","c">> }

\* A second identifier behind the first, introduced by one of the markers.
SecondId == <<"z","z","z","z","z","z","z","z","z","z","z">>
MarkedSuffix == { <<"?","v","=">> \o SecondId, <<"?","u","=","y","o","u","t","u",".","b","e","/">> \o SecondId, <<"?","u","=","e","m","b","e","d","/">> \o SecondId, <<"?","u","=","s","h","o","r","t","s","/">> \o SecondId }

\* Strings that hold no identifier.
Junk == { << >>, <<"n","o","t"," ","a"," ","u","r","l">>, <<"d","Q","w","4","w","9","W","g","X","c">>, <<"d","Q","w","4","w","9","W","g","X","c","Q","Q">>, <<"d","Q","w","4","w","9","W","g","X","c","!">>, <<"v","=","t","o","o","s","h","o","r","t">>, <<"h","t","t","p","s",":","/","/","e","x","a","m","p","l","e",".","c","o","m","/","w","a","t","c","h">> }

Pads == UNION { [1..n -> {" ", "\n"}] : n \in 0..MaxPad }

ExtractInputs ==
    { [form |-> form, id |-> id, suffix |-> suf, url |-> FormPrefix[form] \o id \o suf] :
         form \in Forms \ {"bare"}, id \in Ids, suf \in PlainSuffix \cup MarkedSuffix }
    \cup { [form |-> "bare", id |-> id, suffix |-> << >>, url |-> id] : id \in Ids }
    \cup { [form |-> "junk", id |-> None, suffix |-> << >>, url |-> j] : j \in Junk }

InitExtract ==
    /\ \E x \in ExtractInputs, lead \in Pads, trail \in Pads :
          ex = [ pc |-> "input", form |-> x.form, id |-> x.id, suffix |-> x.suffix,
                 url |-> lead \o x.url \o trail, result |-> None ]
    /\ vt = [ pc |-> "off" ]
    /\ variant = "none" /\ req = << >> /\ platform = NoVideo /\ fs = {}

\* One call of extract_video_id.
Extract ==
    /\ ex.pc = "input"
    /\ ex' = [ex EXCEPT !.pc = "done", !.result = extract_video_id(ex.url)]
    /\ UNCHANGED <<vt, variant, req, platform, fs>>

NextExtract == Extract

SpecExtract == InitExtract /\ [][NextExtract]_vars

\* C7, first part: every accepted form around a valid identifier ID, with
\* nothing after it that names another identifier, yields exactly ID.
C7_Forms ==
    (ex.pc = "done" /\ ex.form \in Forms /\ ex.suffix \in PlainSuffix) => ex.result = ex.id

\* C7, second part: the patterns decide in the order v=, youtu.be/, embed/,
\* shorts/; the first of them that matches gives the result.
C7_Priority ==
    ex.pc = "done" =>
        LET mv == ReSearch(<<"v","=">>, ex.url)
            mb == ReSearch(<<"y","o","u","t","u",".","b","e","/">>, ex.url)
            me == ReSearch(<<"e","m","b","e","d","/">>, ex.url)
            ms == ReSearch(<<"s","h","o","r","t","s","/">>, ex.url)
        IN  /\ mv # None => ex.result = mv
            /\ (mv = None /\ mb # None) => ex.result = mb
            /\ (mv = None /\ mb = None /\ me # None) => ex.result = me
            /\ (mv = None /\ mb = None /\ me = None /\ ms # None) => ex.result = ms

\* C7, third part: a string that matches none of the four patterns and is
\* not, once trimmed, 11 characters of the alphabet yields None.
C7_None ==
    (ex.pc = "done"
       /\ \A k \in 1..4 : \A i \in 1..Len(ex.url) : ~PatternAt(ex.url, patterns[k], i)
       /\ ~(Len(Strip(ex.url)) = 11 /\ \A n \in 1..Len(Strip(ex.url)) : Strip(ex.url)[n] \in IdChars))
    => ex.result = None

\* C7: extract_video_id returns ID for every accepted form, decides by the
\* fixed pattern priority, and returns None when nothing matches.
C7_Extract == C7_Forms /\ C7_Priority /\ C7_None

\* C7's case: a youtu.be URL that also carries a v= parameter has been
\* decided by the v= pattern, and a padded bare identifier has been found.
C7_Witness ==
    /\ ex.pc = "done"
    /\ \/ (ex.form = "short" /\ ex.suffix = <<"?","v","=">> \o SecondId /\ ex.result = SecondId)
       \/ (ex.form = "bare" /\ Len(ex.url) > IdLen /\ ex.result = ex.id)

\* ------------------------------------------------------------ normalizer inputs
\* Pieces of subtitle text an input is made of.
VttPieces == { <<"W","E","B","V","T","T">>, <<"K","i","n","d",":">>, <<"-","-",">">>, <<"<","c",">">>, <<"<","/","c",">">>, <<"1","2">>, <<"h","i">>, <<"<">>, <<">">>, <<" ">>, <<"\n">> }

\* Largest number of pieces in an input.
MaxPieces == 3

RECURSIVE Flatten(_)
Flatten(ps) == IF ps = << >> THEN << >> ELSE Head(ps) \o Flatten(Tail(ps))

InitVtt ==
    /\ \E ps \in UNION { [1..n -> VttPieces] : n \in 0..MaxPieces } :
          vt = [ pc |-> "input", content |-> Flatten(ps), out |-> << >>, again |-> << >> ]
    /\ ex = [ pc |-> "off" ]
    /\ variant = "none" /\ req = << >> /\ platform = NoVideo /\ fs = {}

\* transcript = parse_vtt(content)
Normalize ==
    /\ vt.pc = "input"
    /\ vt' = [vt EXCEPT !.pc = "once", !.out = parse_vtt(vt.content)]
    /\ UNCHANGED <<ex, variant, req, platform, fs>>

\* parse_vtt applied to its own output
Renormalize ==
    /\ vt.pc = "once"
    /\ vt' = [vt EXCEPT !.pc = "twice", !.again = parse_vtt(vt.out)]
    /\ UNCHANGED <<ex, variant, req, platform, fs>>

NextVtt == Normalize \/ Renormalize

SpecVtt == InitVtt /\ [][NextVtt]_vars

\* C8: parse_vtt is idempotent, parse_vtt(parse_vtt(c)) = parse_vtt(c).
C8_Idempotent == vt.pc = "twice" => vt.again = vt.out

\* ------------------------------------------------------------ requests
\* request.json of the requests the service is specified for: an object
\* that holds a string url, or holds none.
RequestUrls == { << >>, <<" ">>, <<"n","o","t"," ","a"," ","u","r","l">>, <<"h","t","t","p","s",":","/","/","y","o","u","t","u",".","b","e","/","d","Q","w","4","w","9","W","g","X","c","Q">>, <<" ","a","-","b","_","c","-","d","_","e","-","f","\n">> }
RequestBodies == { [has |-> FALSE, url |-> << >>] } \cup { [has |-> TRUE, url |-> u] : u \in RequestUrls }

NoResponse == [status |-> 0, body |-> [none |-> TRUE]]

\* The locals of one request, and what it has done so far (events, stage,
\* source, cond, listed and obs record the run; the code does not read them).
NewRequest(body) ==
    [ pc |-> "recv", body |-> body, url |-> None, video_id |-> None,
      tracks |-> << >>, listed |-> << >>, info |-> [subtitles |-> << >>, automatic_captions |-> << >>],
      vtt_files |-> {}, first |-> None, lang |-> None, content |-> None, obs |-> << >>,
      transcript |-> None, error |-> None, source |-> "none", cond |-> "none",
      trimmed_text |-> None, sent |-> None, reply |-> None,
      stage |-> "none", response |-> NoResponse, events |-> << >> ]

\* Python's truth value of a string or None.
Truthy(x) == x # None /\ x # << >>

\* return jsonify({"error": message}), status
RespondError(rq, status, message, stage) ==
    [rq EXCEPT !.pc = "done", !.stage = stage,
               !.response = [status |-> status, body |-> [error |-> message]],
               !.events = Append(@, "respond")]

\* An exception that leaves summarize(): the framework answers 500 itself.
Unhandled(rq, what) ==
    [rq EXCEPT !.pc = "done", !.stage = "unhandled",
               !.response = [status |-> 500, body |-> [fault |-> what]],
               !.events = Append(@, "respond")]

\* return text, error from get_transcript: back in summarize() at line 113.
Return(rq, text, error, source) ==
    [rq EXCEPT !.pc = "check", !.transcript = text, !.error = error, !.source = source]

\* ------------------------------------------------------------ captions provider (app.py)
\* What the provider's exceptions report, and the text str(e) gives.  The
\* text is the provider's: the descriptive one, or one that names no cause.
ApiConditions == {"disabled", "private", "unavailable", "blocked"}
ApiDetail ==
    [ disabled    |-> <<"S","u","b","t","i","t","l","e","s"," ","a","r","e"," ","d","i","s","a","b","l","e","d"," ","f","o","r"," ","t","h","i","s"," ","v","i","d","e","o">>,
      private     |-> <<"T","h","i","s"," ","v","i","d","e","o"," ","i","s"," ","p","r","i","v","a","t","e">>,
      unavailable |-> <<"T","h","e"," ","v","i","d","e","o"," ","i","s"," ","n","o"," ","l","o","n","g","e","r"," ","a","v","a","i","l","a","b","l","e">>,
      blocked     |-> <<"Y","o","u","T","u","b","e"," ","i","s"," ","b","l","o","c","k","i","n","g"," ","r","e","q","u","e","s","t","s"," ","f","r","o","m"," ","y","o","u","r"," ","I","P">> ]
ApiTerse == <<"C","o","u","l","d"," ","n","o","t"," ","r","e","t","r","i","e","v","e"," ","a"," ","t","r","a","n","s","c","r","i","p","t">>
ApiExceptions == { [cond |-> c, msg |-> m] : c \in ApiConditions, m \in {ApiTerse} } \cup { [cond |-> c, msg |-> ApiDetail[c]] : c \in ApiConditions }

\* The snippets a fetch gives: their texts.
SnippetLists == { << >>, << <<" ">>, << >> >>, << <<"h","i">>, <<"a","l","l">> >> }
FetchOutcomes == { [kind |-> "raise", snippets |-> << >>] } \cup { [kind |-> "ok", snippets |-> sn] : sn \in SnippetLists }

\* Largest number of caption tracks a video lists.
MaxTracks == 2

\* A listed track: manually authored or generated, translatable or not, and
\* what fetching it, and fetching its English translation, would give.
TrackOutcomes == { [kind |-> "raise", snippets |-> << >>], [kind |-> "ok", snippets |-> << <<" ">> >>], [kind |-> "ok", snippets |-> << <<"h","e","i">>, <<"d","u">> >>] }
NoOutcome == [kind |-> "n/a", snippets |-> << >>]
Tracks ==
    { [manual |-> m, is_translatable |-> FALSE, fetch |-> f, translated |-> NoOutcome] : m \in BOOLEAN, f \in TrackOutcomes }
    \cup { [manual |-> m, is_translatable |-> TRUE, fetch |-> NoOutcome, translated |-> t] : m \in BOOLEAN, t \in TrackOutcomes }
TrackLists == UNION { [1..n -> Tracks] : n \in 0..MaxTracks }

\* ------------------------------------------------------------ get_transcript (app.py)
\* The test without its strip(): if text:
Usable_NoStrip(text) == text # << >>

\* if text.strip():
Usable(text) == Strip(text) # << >>

\* Try 1: ytt.fetch(video_id, languages=[...]) and its except: pass.
AfterFetch(rq, o) ==
    LET text == Join(o.snippets, <<" ">>)
        rq1 == [rq EXCEPT !.events = Append(@, "captions")]
    IN  IF o.kind = "ok" /\ Usable(text) THEN Return(rq1, text, None, "direct")
        ELSE [rq1 EXCEPT !.pc = "list"]

\* Try 2 without its outer except: the exception leaves get_transcript.
ListException_Propagates(rq, e) == Unhandled([rq EXCEPT !.cond = e.cond], "Exception")

\* except Exception as e: return None, f"Could not fetch transcript: {str(e)}"
ListException(rq, e) ==
    Return([rq EXCEPT !.cond = e.cond], None, <<"C","o","u","l","d"," ","n","o","t"," ","f","e","t","c","h"," ","t","r","a","n","s","c","r","i","p","t",":"," ">> \o e.msg, "none")

\* Try 2: transcript_list = ytt.list(video_id)
AfterList(rq, o) ==
    LET rq1 == [rq EXCEPT !.events = Append(@, "captions")]
    IN  IF o.kind = "raise" THEN ListException(rq1, o.e)
        ELSE [rq1 EXCEPT !.pc = "track", !.tracks = o.tracks, !.listed = o.tracks,
                         !.cond = IF o.tracks = << >> THEN "notracks" ELSE "none"]

\* One round of for transcript in transcript_list, or the return after it.
AfterTrack(rq) ==
    IF rq.tracks = << >>
    THEN Return(rq, None, <<"N","o"," ","u","s","a","b","l","e"," ","t","r","a","n","s","c","r","i","p","t"," ","f","o","u","n","d","."," ","T","r","y"," ","a"," ","d","i","f","f","e","r","e","n","t"," ","v","i","d","e","o",".">>, "none")
    ELSE LET t == Head(rq.tracks)
             o == IF t.is_translatable THEN t.translated ELSE t.fetch
             text == Join(o.snippets, <<" ">>)
             rq1 == [rq EXCEPT !.events = Append(@, "captions")]
         IN  IF o.kind = "ok" /\ Usable(text)
             THEN Return(rq1, text, None, IF t.manual THEN "manual" ELSE "auto")
             ELSE [rq1 EXCEPT !.tracks = Tail(@)]

FetchDirect(r) ==
    /\ req[r].pc = "fetch"
    /\ \E o \in FetchOutcomes : req' = [req EXCEPT ![r] = AfterFetch(req[r], o)]
    /\ UNCHANGED <<ex, vt, variant, platform, fs>>

ListTracks(r) ==
    /\ req[r].pc = "list"
    /\ \E o \in { [kind |-> "raise", e |-> e, tracks |-> << >>] : e \in ApiExceptions }
               \cup { [kind |-> "ok", e |-> [cond |-> "none", msg |-> << >>], tracks |-> ts] : ts \in TrackLists } :
          req' = [req EXCEPT ![r] = AfterList(req[r], o)]
    /\ UNCHANGED <<ex, vt, variant, platform, fs>>

TryTrack(r) ==
    /\ req[r].pc = "track"
    /\ req' = [req EXCEPT ![r] = AfterTrack(req[r])]
    /\ UNCHANGED <<ex, vt, variant, platform, fs>>

\* ------------------------------------------------------------ completion provider
\* The slice transcript[:12000].
TrimLimit == 12000

\* The transcript passed on without the slice.
trimmed_text_Whole(transcript) == transcript

trimmed_text(transcript) == Take(transcript, TrimLimit)

\* f"Summarize this YouTube video transcript:\n\n{trimmed_text}"
UserContent(text) == <<"S","u","m","m","a","r","i","z","e"," ","t","h","i","s"," ","Y","o","u","T","u","b","e"," ","v","i","d","e","o"," ","t","r","a","n","s","c","r","i","p","t",":","\n","\n">> \o text

\* JSON texts json.loads accepts here, and their values; it raises
\* JSONDecodeError on every other text.  White space around a text is allowed.
SummaryText == <<"{","\"","t","l","d","r","\"",":","\"","t","\"",",","\"","k","e","y","_","p","o","i","n","t","s","\"",":","[","\"","k","\"","]",",","\"","d","e","t","a","i","l","e","d","_","s","u","m","m","a","r","y","\"",":","\"","d","\"",",","\"","t","a","k","e","a","w","a","y","s","\"",":","[","\"","a","\"","]",",","\"","t","o","p","i","c","s","\"",":","[","\"","p","\"","]","}">>
SummaryValue == [tldr |-> <<"t">>, key_points |-> << <<"k">> >>, detailed_summary |-> <<"d">>, takeaways |-> << <<"a">> >>, topics |-> << <<"p">> >>]
PartialText == <<"{","\"","t","l","d","r","\"",":","\"","t","\"","}">>
PartialValue == [tldr |-> <<"t">>]
JsonWhitespace == {" ", "\t", "\n", "\r"}

RECURSIVE JsonSkip(_)
JsonSkip(s) == IF s # << >> /\ Head(s) \in JsonWhitespace THEN JsonSkip(Tail(s)) ELSE s
RECURSIVE JsonSkipEnd(_)
JsonSkipEnd(s) == IF s # << >> /\ s[Len(s)] \in JsonWhitespace THEN JsonSkipEnd(SubSeq(s, 1, Len(s) - 1)) ELSE s

JsonLoads(raw) ==
    LET t == JsonSkipEnd(JsonSkip(raw))
    IN  IF t = SummaryText THEN [ok |-> TRUE, value |-> SummaryValue]
        ELSE IF t = PartialText THEN [ok |-> TRUE, value |-> PartialValue]
        ELSE [ok |-> FALSE, value |-> [none |-> TRUE]]

\* re.sub(r"^FFFjson\s*", "", raw), FFF the three grave accents of a fence.
ReSubOpenFence(raw) ==
    IF StartsWith(raw, <<"GRAVE","GRAVE","GRAVE","j","s","o","n">>) THEN LStrip(From(raw, 7)) ELSE raw

\* re.sub(r"\s*FFF$", "", raw): $ is the end, or just before a final newline.
ReSubCloseFence(raw) ==
    LET n == Len(raw)
    IN  IF n >= 3 /\ SubSeq(raw, n - 2, n) = <<"GRAVE","GRAVE","GRAVE">> THEN RStrip(SubSeq(raw, 1, n - 3))
        ELSE IF n >= 4 /\ SubSeq(raw, n - 3, n) = <<"GRAVE","GRAVE","GRAVE","\n">> THEN RStrip(SubSeq(raw, 1, n - 4)) \o <<"\n">>
        ELSE raw

\* What the provider answers: an exception, or a message with its content
\* blocks.  A reply is a document, or no document, with or without fences.
ApiErrors == { <<"C","o","n","n","e","c","t","i","o","n"," ","e","r","r","o","r",".">>, <<"r","a","t","e","_","l","i","m","i","t","_","e","r","r","o","r">> }
ReplyPads == { << >>, <<"\n">> }
OpenFences == { << >>, <<"GRAVE","GRAVE","GRAVE","j","s","o","n">>, <<"GRAVE","GRAVE","GRAVE">> }
CloseFences == { << >>, <<"GRAVE","GRAVE","GRAVE">> }
ReplyDocs == { SummaryText, PartialText, <<"H","e","r","e"," ","i","s"," ","t","h","e"," ","s","u","m","m","a","r","y">> }
Replies ==
    { lead \o open \o gap \o doc \o gap2 \o close \o trail :
        lead \in ReplyPads, open \in OpenFences, gap \in ReplyPads, doc \in ReplyDocs,
        gap2 \in ReplyPads, close \in CloseFences, trail \in ReplyPads }
CompletionOutcomes ==
    { [kind |-> "raise", msg |-> m, content |-> << >>] : m \in ApiErrors }
    \cup { [kind |-> "message", msg |-> << >>, content |-> << >>] }
    \cup { [kind |-> "message", msg |-> << >>, content |-> << t >>] : t \in Replies }

\* ------------------------------------------------------------ summarize
\* url = data.get("url", "").strip(); if not url: ...
AfterValidate(rq) ==
    LET url == Strip(IF rq.body.has THEN rq.body.url ELSE << >>)
        rq1 == [rq EXCEPT !.url = url, !.events = Append(@, "validate")]
    IN  IF ~Truthy(url) THEN RespondError(rq1, 400, <<"P","l","e","a","s","e"," ","e","n","t","e","r"," ","a"," ","Y","o","u","T","u","b","e"," ","U","R","L",".">>, "url")
        ELSE [rq1 EXCEPT !.pc = "extract"]

\* The handler without the return on a missing identifier.
AfterExtract_NoReturn(rq, video_id) ==
    [rq EXCEPT !.video_id = video_id, !.events = Append(@, "extract"),
               !.pc = IF variant = "api" THEN "fetch" ELSE "cleanup"]

\* video_id = extract_video_id(url); if not video_id: ...
AfterExtract(rq, video_id) ==
    LET rq1 == [rq EXCEPT !.video_id = video_id, !.events = Append(@, "extract")]
    IN  IF ~Truthy(video_id)
        THEN RespondError(rq1, 400, <<"I","n","v","a","l","i","d"," ","Y","o","u","T","u","b","e"," ","U","R","L","."," ","P","l","e","a","s","e"," ","c","h","e","c","k"," ","a","n","d"," ","t","r","y"," ","a","g","a","i","n",".">>, "id")
        ELSE [rq1 EXCEPT !.pc = IF variant = "api" THEN "fetch" ELSE "cleanup"]

\* transcript, error = get_transcript(video_id); if error: ...; the slice.
AfterTranscript(rq) ==
    LET rq1 == [rq EXCEPT !.tracks = << >>, !.listed = << >>, !.vtt_files = {}, !.first = None, !.lang = None, !.content = None, !.obs = << >>,
                         !.info = [subtitles |-> << >>, automatic_captions |-> << >>]]
    IN  IF Truthy(rq.error) THEN RespondError(rq1, 400, rq.error, "transcript")
        ELSE IF rq.transcript = None THEN Unhandled(rq1, "TypeError")
        ELSE [rq1 EXCEPT !.pc = "complete", !.trimmed_text = trimmed_text(rq.transcript)]

\* client.messages.create(...) is called: the request goes out.
AfterSend(rq) ==
    [rq EXCEPT !.pc = "await", !.sent = UserContent(rq.trimmed_text), !.events = Append(@, "completion")]

\* The rest of the try block of summarize and its two except clauses.
AfterCompletion(rq, o) ==
    LET rq1 == [rq EXCEPT !.reply = IF o.content = << >> THEN None ELSE o.content[1]]
        raw == ReSubCloseFence(ReSubOpenFence(Strip(o.content[1])))
    IN  IF o.kind = "raise" THEN RespondError(rq1, 500, <<"A","I"," ","e","r","r","o","r",":"," ">> \o o.msg, "summarize")
        ELSE IF o.content = << >> THEN RespondError(rq1, 500, <<"A","I"," ","e","r","r","o","r",":"," ","l","i","s","t"," ","i","n","d","e","x"," ","o","u","t"," ","o","f"," ","r","a","n","g","e">>, "summarize")
        ELSE IF ~JsonLoads(raw).ok
             THEN RespondError(rq1, 500, <<"A","I"," ","r","e","t","u","r","n","e","d"," ","u","n","e","x","p","e","c","t","e","d"," ","f","o","r","m","a","t","."," ","P","l","e","a","s","e"," ","t","r","y"," ","a","g","a","i","n",".">>, "summarize")
        ELSE [rq1 EXCEPT !.pc = "done", !.stage = "ok",
                         !.response = [status |-> 200, body |-> JsonLoads(raw).value],
                         !.events = Append(@, "respond")]

Validate(r) ==
    /\ req[r].pc = "recv"
    /\ req' = [req EXCEPT ![r] = AfterValidate(req[r])]
    /\ UNCHANGED <<ex, vt, variant, platform, fs>>

ExtractId(r) ==
    /\ req[r].pc = "extract"
    /\ req' = [req EXCEPT ![r] = AfterExtract(req[r], extract_video_id(req[r].url))]
    /\ UNCHANGED <<ex, vt, variant, platform, fs>>

CheckTranscript(r) ==
    /\ req[r].pc = "check"
    /\ req' = [req EXCEPT ![r] = AfterTranscript(req[r])]
    /\ UNCHANGED <<ex, vt, variant, platform, fs>>

SendCompletion(r) ==
    /\ req[r].pc = "complete"
    /\ req' = [req EXCEPT ![r] = AfterSend(req[r])]
    /\ UNCHANGED <<ex, vt, variant, platform, fs>>

Complete(r) ==
    /\ req[r].pc = "await"
    /\ \E o \in CompletionOutcomes : req' = [req EXCEPT ![r] = AfterCompletion(req[r], o)]
    /\ UNCHANGED <<ex, vt, variant, platform, fs>>

\* ------------------------------------------------------------ subtitle downloader (app (2).py)
LowerOf ==
    [ A |-> "a", B |-> "b", C |-> "c", D |-> "d", E |-> "e", F |-> "f", G |-> "g", H |-> "h", I |-> "i",
      J |-> "j", K |-> "k", L |-> "l", M |-> "m", N |-> "n", O |-> "o", P |-> "p", Q |-> "q", R |-> "r",
      S |-> "s", T |-> "t", U |-> "u", V |-> "v", W |-> "w", X |-> "x", Y |-> "y", Z |-> "z" ]

\* str.lower()
Lower(s) == [i \in 1..Len(s) |-> IF s[i] \in Uppercase THEN LowerOf[s[i]] ELSE s[i]]

\* 'subtitleslangs' of the first download.
EnglishLangs == { <<"e","n">>, <<"e","n","-","U","S">>, <<"e","n","-","G","B">>, <<"e","n","-","A","U">> }

\* What extract_info(url, download=True) does: it raises, or it returns the
\* video's info and has written subtitle files for some of the requested
\* languages that the video has.
DownloadErrors == { <<"E","R","R","O","R",":"," ","[","y","o","u","t","u","b","e","]"," ","P","r","i","v","a","t","e"," ","v","i","d","e","o","."," ","S","i","g","n"," ","i","n"," ","i","f"," ","y","o","u","'","v","e"," ","b","e","e","n"," ","g","r","a","n","t","e","d"," ","a","c","c","e","s","s">>,
                    <<"E","R","R","O","R",":"," ","[","y","o","u","t","u","b","e","]"," ","V","i","d","e","o"," ","u","n","a","v","a","i","l","a","b","l","e","."," ","T","h","i","s"," ","v","i","d","e","o"," ","i","s"," ","p","r","i","v","a","t","e">>,
                    <<"E","R","R","O","R",":"," ","[","y","o","u","t","u","b","e","]"," ","V","i","d","e","o"," ","u","n","a","v","a","i","l","a","b","l","e">>,
                    <<"E","R","R","O","R",":"," ","U","n","a","b","l","e"," ","t","o"," ","d","o","w","n","l","o","a","d"," ","w","e","b","p","a","g","e">> }
OtherErrors == { <<"'","N","o","n","e","T","y","p","e","'"," ","o","b","j","e","c","t"," ","h","a","s"," ","n","o"," ","a","t","t","r","i","b","u","t","e"," ","'","g","e","t","'">> }
SubtitleKeys == { << >>, << <<"e","n">> >>, << <<"f","r">> >> }
AutomaticKeys == { << >>, << <<"e","n","-","U","S">> >>, << <<"d","e">> >> }
Infos == { [subtitles |-> sk, automatic_captions |-> ak] : sk \in SubtitleKeys, ak \in AutomaticKeys }
VttContents == { <<"W","E","B","V","T","T","\n","K","i","n","d",":"," ","c","a","p","t","i","o","n","s","\n","\n","0","0",":","0","1",".","0","0","0"," ","-","-",">"," ","0","0",":","0","2",".","0","0","0","\n","h","i","\n","\n","0","0",":","0","2",".","0","0","0"," ","-","-",">"," ","0","0",":","0","3",".","0","0","0","\n","h","i","\n","a","l","l">>,
                 <<"W","E","B","V","T","T","\n","\n","1","\n","0","0",":","0","1",".","0","0","0"," ","-","-",">"," ","0","0",":","0","2",".","0","0","0","\n","<","c",">"," ","<","/","c",">","\n">>,
                 <<"W","E","B","V","T","T","\n","\n","0","0",":","0","1",".","0","0","0"," ","-","-",">"," ","0","0",":","0","2",".","0","0","0","\n","<","c",">","b","o","n","j","o","u","r","<","/","c",">">> }

Range(f) == { f[i] : i \in DOMAIN f }

\* The files a download may write: for each language wanted and offered,
\* none or one file, of the video's subtitle text.
Writes(wanted, video) ==
    LET offered == wanted \cap (Range(video.info.subtitles) \cup Range(video.info.automatic_captions))
    IN  { [l \in ls |-> video.content] : ls \in SUBSET offered }

DownloadOutcomes(wanted, video) ==
    { [kind |-> "DownloadError", msg |-> m, info |-> [subtitles |-> << >>, automatic_captions |-> << >>], written |-> << >>] : m \in DownloadErrors }
    \cup { [kind |-> "Exception", msg |-> m, info |-> [subtitles |-> << >>, automatic_captions |-> << >>], written |-> << >>] : m \in OtherErrors }
    \cup { [kind |-> "ok", msg |-> << >>, info |-> video.info, written |-> w] : w \in Writes(wanted, video) }

\* The temp directory after a download has written its files.
FsWrite(files, vid, written) ==
    { f \in files : ~(f.vid = vid /\ f.lang \in DOMAIN written) }
    \cup { [vid |-> vid, lang |-> l, content |-> written[l]] : l \in DOMAIN written }

\* glob.glob(f"{output_path}*"): the files of this video identifier.
Glob(files, vid) == { f \in files : f.vid = vid }

\* ------------------------------------------------------------ get_transcript (app (2).py)
\* except yt_dlp.utils.DownloadError as e / except Exception as e
DownloadException(rq, o) ==
    IF o.kind = "DownloadError"
    THEN IF Contains(Lower(o.msg), <<"p","r","i","v","a","t","e">>) THEN Return([rq EXCEPT !.cond = "private"], None, <<"T","h","i","s"," ","v","i","d","e","o"," ","i","s"," ","p","r","i","v","a","t","e",".">>, "none")
         ELSE IF Contains(Lower(o.msg), <<"u","n","a","v","a","i","l","a","b","l","e">>) THEN Return([rq EXCEPT !.cond = "unavailable"], None, <<"T","h","i","s"," ","v","i","d","e","o"," ","i","s"," ","u","n","a","v","a","i","l","a","b","l","e",".">>, "none")
         ELSE Return(rq, None, <<"C","o","u","l","d"," ","n","o","t"," ","a","c","c","e","s","s"," ","v","i","d","e","o",":"," ">> \o o.msg, "none")
    ELSE Return(rq, None, <<"U","n","e","x","p","e","c","t","e","d"," ","e","r","r","o","r",":"," ">> \o o.msg, "none")

\* ydl.extract_info(url, download=True), first or second time.
AfterDownload(rq, o, pc) ==
    LET rq1 == [rq EXCEPT !.events = Append(@, "captions"), !.obs = Append(@, o)]
    IN  IF o.kind # "ok" THEN DownloadException(rq1, o)
        ELSE [rq1 EXCEPT !.pc = pc, !.info = IF pc = "glob1" THEN o.info ELSE @]

\* vtt_files = glob.glob(...) after the first download, and the branch on it.
AfterGlob1(rq, found, first) ==
    LET all_langs == rq.info.subtitles \o rq.info.automatic_captions
    IN  IF found # {} THEN [rq EXCEPT !.pc = "read", !.vtt_files = found, !.first = first]
        ELSE IF all_langs = << >>
             THEN Return([rq EXCEPT !.cond = "notracks"], None, <<"T","h","i","s"," ","v","i","d","e","o"," ","h","a","s"," ","n","o"," ","s","u","b","t","i","t","l","e","s"," ","o","r"," ","c","a","p","t","i","o","n","s"," ","a","v","a","i","l","a","b","l","e",".">>, "none")
        ELSE [rq EXCEPT !.pc = "download2", !.lang = all_langs[1]]

\* vtt_files = glob.glob(...) after the second download, and the branch on it.
AfterGlob2(rq, found, first) ==
    IF found # {} THEN [rq EXCEPT !.pc = "read", !.vtt_files = found, !.first = first]
    ELSE Return(rq, None, <<"C","o","u","l","d"," ","n","o","t"," ","d","o","w","n","l","o","a","d"," ","s","u","b","t","i","t","l","e","s","."," ","T","h","e"," ","v","i","d","e","o"," ","m","a","y"," ","h","a","v","e"," ","c","a","p","t","i","o","n","s"," ","d","i","s","a","b","l","e","d",".">>, "none")

\* with open(vtt_files[0], 'r', encoding='utf-8') as f: content = f.read()
AfterRead(rq, files) ==
    LET here == { f \in files : f.vid = rq.video_id /\ f.lang = rq.first }
    IN  IF here = {}
        THEN Return(rq, None, <<"U","n","e","x","p","e","c","t","e","d"," ","e","r","r","o","r",":"," ","[","E","r","r","n","o"," ","2","]"," ","N","o"," ","s","u","c","h"," ","f","i","l","e"," ","o","r"," ","d","i","r","e","c","t","o","r","y",":"," ","'","/","t","m","p","/","y","t","_","s","u","b","_">> \o rq.video_id \o <<".">> \o rq.first \o <<".","v","t","t","'">>, "none")
        ELSE [rq EXCEPT !.pc = "remove", !.content = (CHOOSE f \in here : TRUE).content]

\* transcript = parse_vtt(content); if not transcript.strip(): ...
AfterParse(rq) ==
    LET transcript == parse_vtt(rq.content)
    IN  IF Strip(transcript) = << >> THEN Return(rq, None, <<"T","r","a","n","s","c","r","i","p","t"," ","w","a","s"," ","e","m","p","t","y"," ","a","f","t","e","r"," ","p","a","r","s","i","n","g",".">>, "none")
        ELSE Return(rq, transcript, None, "file")

\* for f in glob.glob(f"{output_path}*"): os.remove(f)
Cleanup(r) ==
    /\ req[r].pc = "cleanup"
    /\ fs' = fs \ Glob(fs, req[r].video_id)
    /\ req' = [req EXCEPT ![r].pc = "download"]
    /\ UNCHANGED <<ex, vt, variant, platform>>

Download1(r) ==
    /\ req[r].pc = "download"
    /\ \E o \in DownloadOutcomes(EnglishLangs, platform) :
          /\ req' = [req EXCEPT ![r] = AfterDownload(req[r], o, "glob1")]
          /\ fs' = FsWrite(fs, req[r].video_id, o.written)
    /\ UNCHANGED <<ex, vt, variant, platform>>

\* glob returns the files in no particular order: any of them is vtt_files[0].
Glob1(r) ==
    /\ req[r].pc = "glob1"
    /\ LET found == { f.lang : f \in Glob(fs, req[r].video_id) }
       IN  \E first \in (IF found = {} THEN {None} ELSE found) :
              req' = [req EXCEPT ![r] = AfterGlob1(req[r], found, first)]
    /\ UNCHANGED <<ex, vt, variant, platform, fs>>

Download2(r) ==
    /\ req[r].pc = "download2"
    /\ \E o \in DownloadOutcomes({req[r].lang}, platform) :
          /\ req' = [req EXCEPT ![r] = AfterDownload(req[r], o, "glob2")]
          /\ fs' = FsWrite(fs, req[r].video_id, o.written)
    /\ UNCHANGED <<ex, vt, variant, platform>>

Glob2(r) ==
    /\ req[r].pc = "glob2"
    /\ LET found == { f.lang : f \in Glob(fs, req[r].video_id) }
       IN  \E first \in (IF found = {} THEN {None} ELSE found) :
              req' = [req EXCEPT ![r] = AfterGlob2(req[r], found, first)]
    /\ UNCHANGED <<ex, vt, variant, platform, fs>>

ReadFile(r) ==
    /\ req[r].pc = "read"
    /\ req' = [req EXCEPT ![r] = AfterRead(req[r], fs)]
    /\ UNCHANGED <<ex, vt, variant, platform, fs>>

\* for f in vtt_files: os.remove(f), then the parse and the return.
RemoveAndParse(r) ==
    /\ req[r].pc = "remove"
    /\ fs' = fs \ { f \in fs : f.vid = req[r].video_id /\ f.lang \in req[r].vtt_files }
    /\ req' = [req EXCEPT ![r] = AfterParse(req[r])]
    /\ UNCHANGED <<ex, vt, variant, platform>>

\* ------------------------------------------------------------ the service
\* One request to one of the two apps.
Init ==
    /\ \/ variant = "api" /\ platform = NoVideo
       \/ variant = "ytdlp" /\ \E i \in Infos, c \in VttContents : platform = [info |-> i, content |-> c]
    /\ \E body \in RequestBodies : req = [r \in {1} |-> NewRequest(body)]
    /\ fs = {}
    /\ ex = [ pc |-> "off" ]
    /\ vt = [ pc |-> "off" ]

Next ==
    \/ \E r \in DOMAIN req : Validate(r)
    \/ \E r \in DOMAIN req : ExtractId(r)
    \/ \E r \in DOMAIN req : FetchDirect(r)
    \/ \E r \in DOMAIN req : ListTracks(r)
    \/ \E r \in DOMAIN req : TryTrack(r)
    \/ \E r \in DOMAIN req : Cleanup(r)
    \/ \E r \in DOMAIN req : Download1(r)
    \/ \E r \in DOMAIN req : Glob1(r)
    \/ \E r \in DOMAIN req : Download2(r)
    \/ \E r \in DOMAIN req : Glob2(r)
    \/ \E r \in DOMAIN req : ReadFile(r)
    \/ \E r \in DOMAIN req : RemoveAndParse(r)
    \/ \E r \in DOMAIN req : CheckTranscript(r)
    \/ \E r \in DOMAIN req : SendCompletion(r)
    \/ \E r \in DOMAIN req : Complete(r)

Spec == Init /\ [][Next]_vars

\* Two requests to the subtitle-download app, each past its identifier
\* extraction and about to call get_transcript.
ConcUrls == { <<"h","t","t","p","s",":","/","/","y","o","u","t","u",".","b","e","/","d","Q","w","4","w","9","W","g","X","c","Q">>, <<" ","a","-","b","_","c","-","d","_","e","-","f","\n">> }
Arrived(url) ==
    LET rq == AfterValidate(NewRequest([has |-> TRUE, url |-> url]))
    IN  [AfterExtract(rq, extract_video_id(rq.url)) EXCEPT !.pc = "cleanup"]

InitConc ==
    /\ variant = "ytdlp"
    /\ \E i \in Infos, c \in VttContents : platform = [info |-> i, content |-> c]
    /\ \E u1 \in ConcUrls, u2 \in ConcUrls : req = [r \in {1, 2} |-> Arrived(IF r = 1 THEN u1 ELSE u2)]
    /\ fs = {}
    /\ ex = [ pc |-> "off" ]
    /\ vt = [ pc |-> "off" ]

NextConc ==
    \/ \E r \in DOMAIN req : Cleanup(r)
    \/ \E r \in DOMAIN req : Download1(r)
    \/ \E r \in DOMAIN req : Glob1(r)
    \/ \E r \in DOMAIN req : Download2(r)
    \/ \E r \in DOMAIN req : Glob2(r)
    \/ \E r \in DOMAIN req : ReadFile(r)
    \/ \E r \in DOMAIN req : RemoveAndParse(r)

SpecConc == InitConc /\ [][NextConc]_vars

\* Requests whose transcript, already retrieved, is about as long as the
\* slice: Margin characters shorter to Margin characters longer.
Margin == 2

DigitAt == << "0", "1", "2", "3", "4", "5", "6", "7", "8", "9" >>
LongText(n) == [i \in 1..n |-> DigitAt[((i + (i \div 10) + (i \div 100) + (i \div 1000)) % 10) + 1]]

InitTrim ==
    /\ variant = "api" /\ platform = NoVideo
    /\ \E n \in (TrimLimit - Margin)..(TrimLimit + Margin) :
          req = [r \in {1} |-> Return(Arrived(<<"h","t","t","p","s",":","/","/","y","o","u","t","u",".","b","e","/","d","Q","w","4","w","9","W","g","X","c","Q">>), LongText(n), None, "direct")]
    /\ fs = {}
    /\ ex = [ pc |-> "off" ]
    /\ vt = [ pc |-> "off" ]

NextTrim ==
    \/ \E r \in DOMAIN req : CheckTranscript(r)
    \/ \E r \in DOMAIN req : SendCompletion(r)
    \/ \E r \in DOMAIN req : Complete(r)

SpecTrim == InitTrim /\ [][NextTrim]_vars

\* ------------------------------------------------------------ claims
Count(seq, x) == Cardinality({ i \in 1..Len(seq) : seq[i] = x })

Mentions(text, word) == text # None /\ Contains(Lower(text), word)

StepRank == [validate |-> 1, extract |-> 2, captions |-> 3, completion |-> 4, respond |-> 5]

\* C2: the steps of a request run in the order validate, extract, captions
\* provider, completion provider, response; the captions provider is not
\* contacted when the url is empty or no identifier was extracted; the
\* completion provider is called at most once and only after get_transcript
\* returned a text and no error.
C2_StepOrder ==
    \A r \in DOMAIN req :
        LET rq == req[r]
            ev == rq.events
        IN  /\ \A i \in 1..Len(ev) : \A j \in 1..Len(ev) : i < j => StepRank[ev[i]] <= StepRank[ev[j]]
            /\ \A s \in {"validate", "extract", "completion", "respond"} : Count(ev, s) <= 1
            /\ Count(ev, "extract") = 1 => Count(ev, "validate") = 1
            /\ Count(ev, "captions") > 0 => Count(ev, "extract") = 1
            /\ Count(ev, "completion") = 1 => Count(ev, "captions") > 0
            /\ Count(ev, "captions") > 0 => (Truthy(rq.url) /\ Truthy(rq.video_id))
            /\ Count(ev, "completion") = 1 => (Truthy(rq.transcript) /\ rq.error = None)
            /\ (Count(ev, "respond") = 1 /\ rq.stage \in {"url", "id", "transcript"}) => Count(ev, "completion") = 0

\* C2's case: a request that went through every step, the captions provider
\* contacted more than once before the one completion call.
C2_Witness ==
    \E r \in DOMAIN req :
        /\ req[r].pc = "done" /\ req[r].stage = "ok"
        /\ Count(req[r].events, "captions") > 1
        /\ Count(req[r].events, "completion") = 1

Blank(text) == \A i \in 1..Len(text) : text[i] \in Whitespace

\* C3: in both apps, when get_transcript returns no error the text it
\* returns is neither empty nor all whitespace.
C3_NonBlank ==
    \A r \in DOMAIN req :
        /\ (req[r].pc = "check" /\ req[r].error = None) => req[r].transcript # None
        /\ req[r].transcript # None => ~Blank(req[r].transcript)

\* C3's case: the parsed subtitle file was blank and get_transcript returned
\* the error of an empty transcript.
C3_Witness ==
    \E r \in DOMAIN req :
        /\ req[r].pc = "check"
        /\ req[r].content # None /\ Blank(parse_vtt(req[r].content))
        /\ req[r].error = <<"T","r","a","n","s","c","r","i","p","t"," ","w","a","s"," ","e","m","p","t","y"," ","a","f","t","e","r"," ","p","a","r","s","i","n","g",".">>

\* C4: when the provider reports captions disabled, the failure reason
\* mentions disabled or unavailable and is not the reason of a private
\* video; the reason of a private video says so.
C4_Reasons ==
    \A r \in DOMAIN req :
        /\ (req[r].pc = "check" /\ req[r].cond = "disabled") =>
              /\ Mentions(req[r].error, <<"d","i","s","a","b","l","e","d">>) \/ Mentions(req[r].error, <<"u","n","a","v","a","i","l","a","b","l","e">>)
              /\ ~Mentions(req[r].error, <<"p","r","i","v","a","t","e">>)
        /\ (req[r].pc = "check" /\ req[r].cond = "private") =>
              /\ Mentions(req[r].error, <<"p","r","i","v","a","t","e">>)
              /\ ~Mentions(req[r].error, <<"d","i","s","a","b","l","e","d">>)

TrackUsable(t) ==
    LET o == IF t.is_translatable THEN t.translated ELSE t.fetch
    IN  o.kind = "ok" /\ ~Blank(Join(o.snippets, <<" ">>))

\* C5: when the tracks are enumerated and a manually authored track yields
\* usable text, the transcript returned comes from a manual track.
C5_PrefersManual ==
    \A r \in DOMAIN req :
        (req[r].pc = "check" /\ \E i \in 1..Len(req[r].listed) : req[r].listed[i].manual /\ TrackUsable(req[r].listed[i]))
        => req[r].source = "manual"

Result(rq) == << rq.transcript, rq.error >>

\* What get_transcript of the download app returns when it runs alone with
\* the provider responses this request got; {} when the request, alone,
\* would have needed a response it never asked for.
AloneResults(rq) ==
    LET o1 == rq.obs[1]
        base == [rq EXCEPT !.info = o1.info]
        read(written) == { Result(AfterParse([rq EXCEPT !.content = written[l]])) : l \in DOMAIN written }
    IN  IF o1.kind # "ok" THEN { Result(DownloadException(rq, o1)) }
        ELSE IF DOMAIN o1.written # {} THEN read(o1.written)
        ELSE IF AfterGlob1(base, {}, None).pc = "check" THEN { Result(AfterGlob1(base, {}, None)) }
        ELSE IF Len(rq.obs) < 2 THEN {}
        ELSE IF rq.obs[2].kind # "ok" THEN { Result(DownloadException(rq, rq.obs[2])) }
        ELSE IF DOMAIN rq.obs[2].written # {} THEN read(rq.obs[2].written)
        ELSE { Result(AfterGlob2(base, {}, None)) }

\* C6: a request that runs beside another returns from get_transcript what
\* it would return alone on the same provider responses.
C6_Isolated ==
    \A r \in DOMAIN req :
        (req[r].pc = "check" /\ req[r].obs # << >> /\ AloneResults(req[r]) # {})
        => Result(req[r]) \in AloneResults(req[r])

FencedReplies(opens) ==
    { lead \o open \o gap \o doc \o gap2 \o <<"GRAVE","GRAVE","GRAVE">> \o trail :
        lead \in ReplyPads, open \in opens, gap \in ReplyPads, doc \in {SummaryText, PartialText},
        gap2 \in ReplyPads, trail \in ReplyPads }

ParsedAs200(rq) ==
    /\ rq.response.status = 200
    /\ \/ Contains(rq.reply, SummaryText) /\ rq.response.body = SummaryValue
       \/ Contains(rq.reply, PartialText) /\ rq.response.body = PartialValue

\* C9: a JSON object between an opening fence (with or without the json
\* tag) and a closing fence is parsed and returned with status 200.
C9_AnyFence ==
    \A r \in DOMAIN req :
        (req[r].pc = "done" /\ req[r].reply \in FencedReplies(OpenFences \ {<< >>})) => ParsedAs200(req[r])

\* The fences line 130 does strip: a JSON object between the opening fence
\* with the json tag and a closing fence is parsed and returned with 200.
C9_JsonFence ==
    \A r \in DOMAIN req :
        (req[r].pc = "done" /\ req[r].reply \in FencedReplies({<<"GRAVE","GRAVE","GRAVE","j","s","o","n">>})) => ParsedAs200(req[r])

\* C10: the transcript part of the one request sent to the completion
\* provider is the first min(len, 12000) characters of the transcript.
C10_Prefix ==
    \A r \in DOMAIN req :
        req[r].sent # None =>
            LET t == req[r].transcript
                lead == <<"S","u","m","m","a","r","i","z","e"," ","t","h","i","s"," ","Y","o","u","T","u","b","e"," ","v","i","d","e","o"," ","t","r","a","n","s","c","r","i","p","t",":","\n","\n">>
                n == IF Len(t) <= 12000 THEN Len(t) ELSE 12000
            IN  /\ Count(req[r].events, "completion") = 1
                /\ Len(req[r].sent) - Len(lead) <= 12000
                /\ req[r].sent = lead \o SubSeq(t, 1, n)

\* C10's case: a transcript longer than the slice has been sent.
C10_Witness ==
    \E r \in DOMAIN req : req[r].sent # None /\ Len(req[r].transcript) > 12000

====
